---- MODULE Spec2Model ----
(***************************************************************************)
(* The time tracker of noorg (resources/default_scripts/python/             *)
(* time_tracker.py): the time block model, the ledger parser, the balance   *)
(* calculator, the document synthesizer and the update orchestrator.        *)
(*                                                                          *)
(* Representation.  A Python str is a TLA+ string and is taken apart        *)
(* character by character, as the code does.  A document (the ledger text,  *)
(* an event's content) is the sequence of its lines, i.e. its split on      *)
(* "\n"; the text "" is <<"">> and Python's None is <<>>.  The emoji of     *)
(* the heading and of the status line are left out of the literals: no      *)
(* code reads them.  A float is held as an integer number of hundredths;    *)
(* the texts the model reads carry at most two fractional digits, where     *)
(* this is exact.  A raised Python exception is the field err of the        *)
(* value an operator returns.  Where the code binds a local variable that   *)
(* it reads several times, the model passes it as a parameter to a second   *)
(* operator that holds the rest of the function.                            *)
(***************************************************************************)
EXTENDS Integers, Sequences, FiniteSets, TLC

(***************************************************************************)
(* str: the methods of Python's str that the code calls.                    *)
(***************************************************************************)
Char(s, i) == SubSeq(s, i, i)

\* c in s, for a single character c
Contains(s, c) == \E i \in 1..Len(s) : Char(s, i) = c

\* s.startswith(p)
StartsWith(s, p) == Len(p) <= Len(s) /\ SubSeq(s, 1, Len(p)) = p

\* s.endswith(p)
EndsWith(s, p) == Len(p) <= Len(s) /\ SubSeq(s, Len(s) - Len(p) + 1, Len(s)) = p

SetMin(S) == CHOOSE i \in S : \A j \in S : i <= j

SetMax(S) == CHOOSE i \in S : \A j \in S : j <= i

\* s between the first and the last of the positions inked, "" when none
Between(s, inked) == IF inked = {} THEN "" ELSE SubSeq(s, SetMin(inked), SetMax(inked))

\* s.strip()
Strip(s) == Between(s, {i \in 1..Len(s) : Char(s, i) # " "})

\* [p.strip() for p in parts]
StripAll(parts) == [i \in 1..Len(parts) |-> Strip(parts[i])]

\* the positions of the separator c in s
Seps(s, c) == {i \in 1..Len(s) : Char(s, i) = c}

RECURSIVE Split(_, _)
\* s.split(c), for a single character c
Split(s, c) ==
    IF ~Contains(s, c) THEN <<s>>
    ELSE <<SubSeq(s, 1, SetMin(Seps(s, c)) - 1)>>
         \o Split(SubSeq(s, SetMin(Seps(s, c)) + 1, Len(s)), c)

\* s.split(c, 1), for an s that holds c
SplitOnce(s, c) ==
    <<SubSeq(s, 1, SetMin(Seps(s, c)) - 1), SubSeq(s, SetMin(Seps(s, c)) + 1, Len(s))>>

RECURSIVE Join(_, _)
\* sep.join(parts)
Join(parts, sep) ==
    IF Len(parts) = 0 THEN ""
    ELSE IF Len(parts) = 1 THEN parts[1]
    ELSE parts[1] \o sep \o Join(Tail(parts), sep)

\* the position of the character c in the alphabet s
IndexIn(s, c) == CHOOSE i \in 1..Len(s) : Char(s, i) = c

LowerChar(c) ==
    IF Contains("ABCDEFGHIJKLMNOPQRSTUVWXYZ", c)
    THEN Char("abcdefghijklmnopqrstuvwxyz", IndexIn("ABCDEFGHIJKLMNOPQRSTUVWXYZ", c))
    ELSE c

RECURSIVE Lower(_)
\* s.lower()
Lower(s) == IF s = "" THEN "" ELSE LowerChar(Head(s)) \o Lower(Tail(s))

RECURSIVE ReplaceSpaces(_)
\* s.replace(' ', '_')
ReplaceSpaces(s) ==
    IF s = "" THEN "" ELSE (IF Head(s) = " " THEN "_" ELSE Head(s)) \o ReplaceSpaces(Tail(s))

\* the printable ASCII characters in code point order (without the quote,
\* the backslash and the backquote, which no text of the model holds)
Ascii == " !#$%&'()*+,-./0123456789:;<=>?@ABCDEFGHIJKLMNOPQRSTUVWXYZ[]^_abcdefghijklmnopqrstuvwxyz{|}~"

\* a < b for two str: by code points, a proper prefix first
StrLess(a, b) ==
    \E i \in 1..Len(b) :
        /\ i <= Len(a) + 1
        /\ SubSeq(a, 1, i - 1) = SubSeq(b, 1, i - 1)
        /\ \/ i = Len(a) + 1
           \/ IndexIn(Ascii, Char(a, i)) < IndexIn(Ascii, Char(b, i))

IsDigits(s) == s # "" /\ \A i \in 1..Len(s) : Contains("0123456789", Char(s, i))

RECURSIVE NatVal(_)
\* the number a string of digits denotes
NatVal(s) ==
    IF s = "" THEN 0
    ELSE NatVal(SubSeq(s, 1, Len(s) - 1)) * 10 + (IndexIn("0123456789", Char(s, Len(s))) - 1)

\* "%02d" % n
Pad2(n) == IF n < 10 THEN "0" \o ToString(n) ELSE ToString(n)

(***************************************************************************)
(* Numbers: float(), int(), and the formats of the f-strings.               *)
(***************************************************************************)
Unsigned(s) == IF s # "" /\ Head(s) \in {"+", "-"} THEN Tail(s) ELSE s

Sign(s) == IF s # "" /\ Head(s) = "-" THEN -1 ELSE 1

\* the float of a sign, the digits w before the point and the digits f
\* after it; ValueError (err) when they are not digits or both are missing
FloatOfDigits(sign, w, f) ==
    IF /\ w = "" \/ IsDigits(w)
       /\ f = "" \/ (IsDigits(f) /\ Len(f) <= 2)
       /\ w # "" \/ f # ""
    THEN [err |-> FALSE,
          h |-> sign * (NatVal(w) * 100 + (IF Len(f) = 1 THEN NatVal(f) * 10 ELSE NatVal(f)))]
    ELSE [err |-> TRUE, h |-> 0]

\* float(s), in hundredths: [sign] digits [. [digits]] or [sign] . digits;
\* anything else raises ValueError.  Defined for at most two fractional digits.
ParseFloat(s) ==
    IF Cardinality(Seps(s, ".")) > 1 THEN [err |-> TRUE, h |-> 0]
    ELSE IF Contains(s, ".")
    THEN FloatOfDigits(Sign(s), SplitOnce(Unsigned(s), ".")[1], SplitOnce(Unsigned(s), ".")[2])
    ELSE FloatOfDigits(Sign(s), Unsigned(s), "")

\* int(s): [sign] digits; anything else raises ValueError
ParseInt(s) ==
    IF IsDigits(Unsigned(s)) THEN [err |-> FALSE, n |-> Sign(s) * NatVal(Unsigned(s))]
    ELSE [err |-> TRUE, n |-> 0]

Abs(n) == IF n < 0 THEN -n ELSE n

\* the decimal of a hundredths, with two fractional digits, or with one when
\* short is asked for and the second is 0
Decimal(a, short) ==
    ToString(a \div 100) \o "." \o
    (IF short /\ a % 10 = 0 THEN ToString((a % 100) \div 10) ELSE Pad2(a % 100))

\* f"{x:.2f}"
Fixed2(h) == (IF h < 0 THEN "-" ELSE "") \o Decimal(Abs(h), FALSE)

\* f"{x:+.2f}"
Signed2(h) == (IF h < 0 THEN "-" ELSE "+") \o Decimal(Abs(h), FALSE)

\* f"{x}" of a number of the configuration: an int prints without a point,
\* a float as the shortest decimal with one fractional digit at least
NumberStr(v) ==
    IF ~v.float THEN ToString(v.h \div 100)
    ELSE (IF v.h < 0 THEN "-" ELSE "") \o Decimal(Abs(v.h), TRUE)

(***************************************************************************)
(* datetime: strptime, strftime, weekday and timedelta, as the code uses    *)
(* them.                                                                    *)
(***************************************************************************)
IsLeap(y) == y % 4 = 0 /\ (y % 100 # 0 \/ y % 400 = 0)

DaysInMonth(y, m) ==
    IF m = 2 THEN (IF IsLeap(y) THEN 29 ELSE 28)
    ELSE IF m \in {4, 6, 9, 11} THEN 30 ELSE 31

RECURSIVE DaysBeforeMonth(_, _)
DaysBeforeMonth(y, m) == IF m = 1 THEN 0 ELSE DaysBeforeMonth(y, m - 1) + DaysInMonth(y, m - 1)

\* tm_yday: the day of the year, from 1
YearDay(dt) == DaysBeforeMonth(dt.y, dt.m) + dt.d

\* the days of the years before year y
DaysBeforeYear(y) == (y - 1) * 365 + (y - 1) \div 4 - (y - 1) \div 100 + (y - 1) \div 400

\* date.weekday(): Monday is 0; 0001-01-01, day 1, is a Monday
Weekday(dt) == (DaysBeforeYear(dt.y) + YearDay(dt) + 6) % 7

PrevDay(dt) ==
    IF dt.d > 1 THEN [dt EXCEPT !.d = dt.d - 1]
    ELSE IF dt.m > 1 THEN [dt EXCEPT !.m = dt.m - 1, !.d = DaysInMonth(dt.y, dt.m - 1)]
    ELSE [dt EXCEPT !.y = dt.y - 1, !.m = 12, !.d = 31]

NextDay(dt) ==
    IF dt.d < DaysInMonth(dt.y, dt.m) THEN [dt EXCEPT !.d = dt.d + 1]
    ELSE IF dt.m < 12 THEN [dt EXCEPT !.m = dt.m + 1, !.d = 1]
    ELSE [dt EXCEPT !.y = dt.y + 1, !.m = 1, !.d = 1]

RECURSIVE AddDays(_, _)
\* dt + timedelta(days=n)
AddDays(dt, n) ==
    IF n = 0 THEN dt
    ELSE IF n > 0 THEN AddDays(NextDay(dt), n - 1)
    ELSE AddDays(PrevDay(dt), n + 1)

NoDate == [err |-> TRUE, y |-> 0, m |-> 0, d |-> 0]

\* the date of the three parts, ValueError when they are not numbers or
\* there is no such day
DateOfParts(p) ==
    IF /\ Len(p) = 3
       /\ IsDigits(p[1]) /\ Len(p[1]) = 4
       /\ IsDigits(p[2]) /\ Len(p[2]) <= 2
       /\ IsDigits(p[3]) /\ Len(p[3]) <= 2
       /\ NatVal(p[1]) >= 1 /\ NatVal(p[2]) \in 1..12
       /\ NatVal(p[3]) >= 1 /\ NatVal(p[3]) <= DaysInMonth(NatVal(p[1]), NatVal(p[2]))
    THEN [err |-> FALSE, y |-> NatVal(p[1]), m |-> NatVal(p[2]), d |-> NatVal(p[3])]
    ELSE NoDate

\* datetime.strptime(s, "%Y-%m-%d"): four digits, one or two, one or two, and
\* a day the month has; anything else raises ValueError
ParseDate(s) == DateOfParts(Split(s, "-"))

\* strftime("%Y-%m"), for the four-digit years the model reads
MonthKey(dt) == ToString(dt.y) \o "-" \o Pad2(dt.m)

\* strftime("%W"): the week of the year, Monday first, the days before the
\* year's first Monday in week 0
WeekNumber(dt) == (YearDay(dt) + 7 - Weekday(dt)) \div 7

\* strftime("%Y-W%W")
WeekKey(dt) == ToString(dt.y) \o "-W" \o Pad2(WeekNumber(dt))

\* strftime("%Y-%m-%d")
DateStr(dt) == ToString(dt.y) \o "-" \o Pad2(dt.m) \o "-" \o Pad2(dt.d)

TimeOfParts(p) ==
    IF /\ Len(p) = 2
       /\ IsDigits(p[1]) /\ Len(p[1]) <= 2 /\ NatVal(p[1]) <= 23
       /\ IsDigits(p[2]) /\ Len(p[2]) <= 2 /\ NatVal(p[2]) <= 59
    THEN [ok |-> TRUE, min |-> NatVal(p[1]) * 60 + NatVal(p[2])]
    ELSE [ok |-> FALSE, min |-> 0]

\* parse_time: datetime.strptime(time_str.strip(), "%H:%M") as minutes after
\* midnight; None (ok = FALSE) on ValueError
parse_time(time_str) == TimeOfParts(Split(Strip(time_str), ":"))

(***************************************************************************)
(* Time block model                                                         *)
(***************************************************************************)
TimeBlock(start, end) == [start |-> start, end |-> end]

\* duration_minutes taking an end before the start as the next day's
MutantWrapDuration(block) ==
    IF ~(parse_time(block.start).ok /\ parse_time(block.end).ok) THEN 0
    ELSE (parse_time(block.end).min - parse_time(block.start).min + 1440) % 1440

\* TimeBlock.duration_minutes
duration_minutes(block) ==
    IF ~(parse_time(block.start).ok /\ parse_time(block.end).ok) THEN 0
    ELSE parse_time(block.end).min - parse_time(block.start).min

NoBlocks == [err |-> FALSE, val |-> <<>>]

\* start, end = part.strip().split('-') and blocks.append(...): ValueError
\* (err) when the split does not yield two
AddBlock(se, rest) ==
    IF Len(se) # 2 THEN [err |-> TRUE, val |-> <<>>]
    ELSE IF rest.err THEN rest
    ELSE [err |-> FALSE, val |-> <<TimeBlock(Strip(se[1]), Strip(se[2]))>> \o rest.val]

\* the body of the loop of TimeBlock.parse for one part, rest being the
\* blocks of the parts after it
AddPart(part, rest) ==
    IF Contains(part, "-") THEN AddBlock(Split(Strip(part), "-"), rest) ELSE rest

RECURSIVE ParseParts(_)
\* the loop of TimeBlock.parse over the parts of time_str.split(',')
ParseParts(parts) ==
    IF parts = <<>> THEN NoBlocks ELSE AddPart(Head(parts), ParseParts(Tail(parts)))

\* TimeBlock.parse
TimeBlock_parse(time_str) ==
    IF time_str = "" \/ Strip(time_str) \in {"-", "N/A"} THEN NoBlocks
    ELSE ParseParts(Split(time_str, ","))

RECURSIVE SumMinutes(_)
\* sum(block.duration_minutes() for block in blocks)
SumMinutes(blocks) ==
    IF blocks = <<>> THEN 0 ELSE duration_minutes(Head(blocks)) + SumMinutes(Tail(blocks))

\* calculate_day_hours without the breaks taken off
MutantDayHours(work_blocks, break_blocks) ==
    (10 * SumMinutes(work_blocks) + 3) \div 6

\* calculate_day_hours, in hundredths of an hour: round(working_minutes / 60, 2)
calculate_day_hours(work_blocks, break_blocks) ==
    (10 * (SumMinutes(work_blocks) - SumMinutes(break_blocks)) + 3) \div 6

(***************************************************************************)
(* Ledger parser                                                            *)
(***************************************************************************)
DEFAULT_CONFIG ==
    [expected_hours_per_week |-> [float |-> FALSE, h |-> 4000],
     workdays |-> <<"Monday", "Tuesday", "Wednesday", "Thursday", "Friday">>,
     vacation_days_per_year |-> 30]

NoSection == [found |-> FALSE, first |-> 0, last |-> 0]

\* the group of the match whose heading is line k: it runs to the first line
\* that an empty line which is not the last line follows
SectionAfter(k, ends) ==
    IF ends = {} THEN NoSection ELSE [found |-> TRUE, first |-> k + 1, last |-> SetMin(ends)]

SectionOf(content, heads) ==
    IF heads = {} THEN NoSection
    ELSE SectionAfter(SetMin(heads),
                      {j \in (SetMin(heads) + 1)..(Len(content) - 2) : content[j + 1] = ""})

\* re.search(r'## Configuration\n(.*?)\n\n', content, re.DOTALL) on the lines
\* of content: the heading is the first line, not the last one, that ends
\* with the marker.  [found, first, last]: the group is lines first..last.
ConfigSection(content) ==
    SectionOf(content, {k \in 1..(Len(content) - 1) : EndsWith(content[k], "## Configuration")})

\* the if/elif chain of parse_config over the recognised keys:
\* config[key] = float(value), the stripped parts of value.split(','),
\* config[key] = int(value)
SetKey(config, key, value) ==
    IF key = "expected_hours_per_week"
    THEN [err |-> ParseFloat(value).err,
          config |-> [config EXCEPT !.expected_hours_per_week =
                                        [float |-> TRUE, h |-> ParseFloat(value).h]]]
    ELSE IF key = "workdays"
    THEN [err |-> FALSE, config |-> [config EXCEPT !.workdays = StripAll(Split(value, ","))]]
    ELSE IF key = "vacation_days_per_year"
    THEN [err |-> ParseInt(value).err,
          config |-> [config EXCEPT !.vacation_days_per_year = ParseInt(value).n]]
    ELSE [err |-> FALSE, config |-> config]

\* the body of the loop of parse_config with the key compared as written
MutantConfigLine(config, line) ==
    IF Contains(line, ":")
    THEN SetKey(config, ReplaceSpaces(Strip(SplitOnce(line, ":")[1])),
                Strip(SplitOnce(line, ":")[2]))
    ELSE [err |-> FALSE, config |-> config]

\* the body of the loop of parse_config for one stripped line of the section:
\* key, value = [part.strip() for part in line.split(':', 1)]
\* key = key.lower().replace(' ', '_')
ConfigLine(config, line) ==
    IF Contains(line, ":")
    THEN SetKey(config, ReplaceSpaces(Lower(Strip(SplitOnce(line, ":")[1]))),
                Strip(SplitOnce(line, ":")[2]))
    ELSE [err |-> FALSE, config |-> config]

RECURSIVE ConfigLines(_, _, _, _)
RECURSIVE ConfigRest(_, _, _, _)
\* the loop of parse_config from line i of the section on
ConfigLines(config, content, i, last) ==
    IF i > last THEN [err |-> FALSE, config |-> config]
    ELSE ConfigRest(ConfigLine(config, Strip(content[i])), content, i, last)

\* after line i: float() or int() raised, or the loop goes on
ConfigRest(r, content, i, last) ==
    IF r.err THEN r ELSE ConfigLines(r.config, content, i + 1, last)

ConfigOf(content, config_section) ==
    IF config_section.found
    THEN ConfigLines(DEFAULT_CONFIG, content, config_section.first, config_section.last)
    ELSE [err |-> FALSE, config |-> DEFAULT_CONFIG]

\* parse_config: err when float() or int() raises ValueError
parse_config(content) == ConfigOf(content, ConfigSection(content))

NoEntries == [err |-> FALSE, val |-> <<>>]

\* if len(parts) >= 6 and parts[1]: entries.append({...}); parts[0] is what
\* precedes the first '|'
EntryOfParts(parts) ==
    IF Len(parts) >= 6 /\ parts[2] # ""
    THEN [err |-> TimeBlock_parse(parts[4]).err \/ TimeBlock_parse(parts[5]).err,
          val |-> <<[date |-> parts[2], type |-> parts[3],
                     work_times |-> TimeBlock_parse(parts[4]).val,
                     break_times |-> TimeBlock_parse(parts[5]).val,
                     notes |-> parts[6]]>>]
    ELSE NoEntries

\* the body of the loop of parse_entries for one table row that is neither
\* the header nor the separator: no entry or the one entry of the row
EntryOfRow(line) == EntryOfParts(StripAll(Split(line, "|")))

\* the entries of a row and those of the rows after it
EntriesCons(e, rest) ==
    IF e.err \/ rest.err THEN [err |-> TRUE, val |-> <<>>]
    ELSE [err |-> FALSE, val |-> e.val \o rest.val]

RECURSIVE EntryLines(_, _, _, _)
\* the loop of parse_entries from line i on
EntryLines(content, i, in_entries, header_seen) ==
    IF i > Len(content) THEN NoEntries
    ELSE IF StartsWith(content[i], "## Time Entries")
    THEN EntryLines(content, i + 1, TRUE, header_seen)
    ELSE IF ~(in_entries /\ StartsWith(content[i], "|"))
    THEN EntryLines(content, i + 1, in_entries, header_seen)
    ELSE IF ~header_seen THEN EntryLines(content, i + 1, in_entries, TRUE)
    ELSE IF StartsWith(content[i], "|--") THEN EntryLines(content, i + 1, in_entries, header_seen)
    ELSE EntriesCons(EntryOfRow(content[i]), EntryLines(content, i + 1, in_entries, header_seen))

\* parse_entries taking the header row of the table for an entry
MutantParseEntries(content) == EntryLines(content, 1, FALSE, TRUE)

\* parse_entries: err when TimeBlock.parse raises ValueError
parse_entries(content) == EntryLines(content, 1, FALSE, FALSE)

(***************************************************************************)
(* Balance calculator.  Hours are in hundredths.                             *)
(***************************************************************************)
NoStats == [err |-> FALSE, total_worked |-> 0, total_expected |-> 0,
            monthly_stats |-> <<>>, weekly_stats |-> <<>>]

\* what an entry adds when a workday's hours are added whatever their sign
MutantCounted(entry_type, hours) ==
    [hours    |-> IF entry_type = "workday" THEN hours ELSE 0,
     vacation |-> IF entry_type = "vacation" THEN 1 ELSE 0,
     sick     |-> IF entry_type = "sick" THEN 1 ELSE 0]

\* what an entry of the type given adds: the hours of a workday when they
\* are positive, a vacation day, a sick day
Counted(entry_type, hours) ==
    [hours    |-> IF entry_type = "workday" /\ hours > 0 THEN hours ELSE 0,
     vacation |-> IF entry_type = "vacation" THEN 1 ELSE 0,
     sick     |-> IF entry_type = "sick" THEN 1 ELSE 0]

\* the bucket of stats under key, with what the entry adds
AddTo(stats, key, c) ==
    [stats EXCEPT ![key] = [@ EXCEPT !.worked = @ + c.hours,
                                     !.vacation_days = @ + c.vacation,
                                     !.sick_days = @ + c.sick]]

\* if month_key not in monthly_stats: monthly_stats[month_key] = {...}
WithMonth(monthly_stats, month_key, expected_per_week) ==
    IF month_key \in DOMAIN monthly_stats THEN monthly_stats
    ELSE monthly_stats @@ (month_key :> [worked |-> 0, expected |-> expected_per_week * 4,
                                         vacation_days |-> 0, sick_days |-> 0])

\* if week_key not in weekly_stats: weekly_stats[week_key] = {...}
WithWeek(weekly_stats, week_key, expected_per_week, entry_date) ==
    IF week_key \in DOMAIN weekly_stats THEN weekly_stats
    ELSE weekly_stats @@ (week_key :> [worked |-> 0, expected |-> expected_per_week,
                                       start_date |-> AddDays(entry_date, -Weekday(entry_date)),
                                       vacation_days |-> 0, sick_days |-> 0])

\* the body of the loop of calculate_balance for an entry with a valid date
AddCounted(acc, expected_per_week, entry_date, month_key, week_key, c) ==
    [err            |-> FALSE,
     total_worked   |-> acc.total_worked + c.hours,
     total_expected |-> acc.total_expected +
                          (IF month_key \in DOMAIN acc.monthly_stats THEN 0
                           ELSE expected_per_week * 4),
     monthly_stats  |-> AddTo(WithMonth(acc.monthly_stats, month_key, expected_per_week),
                              month_key, c),
     weekly_stats   |-> AddTo(WithWeek(acc.weekly_stats, week_key, expected_per_week, entry_date),
                              week_key, c)]

\* the body of the loop after strptime.  When strptime raised ValueError, the
\* except clause calls log_error with the entry's repr in the message;
\* log_error formats the message with str.format, the braces of the repr
\* make that raise KeyError, and the KeyError leaves calculate_balance (err).
AddDated(acc, entry, expected_per_week, entry_date) ==
    IF entry_date.err THEN [acc EXCEPT !.err = TRUE]
    ELSE AddCounted(acc, expected_per_week, entry_date, MonthKey(entry_date), WeekKey(entry_date),
                    Counted(Lower(entry.type),
                            calculate_day_hours(entry.work_times, entry.break_times)))

\* the body of the loop of calculate_balance for one entry
AddEntry(acc, entry, expected_per_week) ==
    IF entry.date = "Date" THEN acc
    ELSE AddDated(acc, entry, expected_per_week, ParseDate(entry.date))

RECURSIVE Aggregate(_, _, _)
\* the loop of calculate_balance over the entries, in order
Aggregate(acc, entries, expected_per_week) ==
    IF entries = <<>> \/ acc.err THEN acc
    ELSE Aggregate(AddEntry(acc, Head(entries), expected_per_week), Tail(entries),
                   expected_per_week)

\* the totals and the monthly and weekly buckets of calculate_balance
Stats(entries, config) == Aggregate(NoStats, entries, config.expected_hours_per_week.h)

\* the least of a set of str
Least(keys) == CHOOSE k \in keys : \A o \in keys \ {k} : StrLess(k, o)

RECURSIVE Sorted(_)
\* sorted(keys): ascending
Sorted(keys) == IF keys = {} THEN <<>> ELSE <<Least(keys)>> \o Sorted(keys \ {Least(keys)})

\* the keys left in ascending order
MutantKept(seq) == [i \in 1..Len(seq) |-> seq[i]]

\* sorted(keys, reverse=True)
Reversed(seq) == [i \in 1..Len(seq) |-> seq[Len(seq) + 1 - i]]

\* one row of the weekly table
WeekRow(week, stats, cumulative_balance) ==
    "| " \o week \o " | " \o DateStr(stats.start_date) \o " to "
    \o DateStr(AddDays(stats.start_date, 6)) \o " | "
    \o Fixed2(stats.worked) \o "h | " \o Fixed2(stats.expected) \o "h | "
    \o Signed2(stats.worked - stats.expected) \o "h | " \o Signed2(cumulative_balance) \o "h |"

RECURSIVE WeekRows(_, _, _)
RECURSIVE WeekRowsFrom(_, _, _)
\* the row of the first of the weeks, cumulative_balance being the balance
\* up to and with it, and the rows after it
WeekRowsFrom(weekly_stats, weeks, cumulative_balance) ==
    <<WeekRow(Head(weeks), weekly_stats[Head(weeks)], cumulative_balance)>>
    \o WeekRows(weekly_stats, Tail(weeks), cumulative_balance)

\* the rows of the weekly table for the weeks in the order given;
\* cumulative_balance is the balance of the rows before them
WeekRows(weekly_stats, weeks, cumulative_balance) ==
    IF weeks = <<>> THEN <<>>
    ELSE WeekRowsFrom(weekly_stats, weeks,
                      cumulative_balance + (weekly_stats[Head(weeks)].worked
                                            - weekly_stats[Head(weeks)].expected))

\* the lines of one month of the monthly summary
MonthBlock(month, stats) ==
    <<"#### " \o month,
      "Hours worked: " \o Fixed2(stats.worked) \o "h",
      "Expected hours: " \o Fixed2(stats.expected) \o "h",
      "Balance: " \o Signed2(stats.worked - stats.expected) \o "h",
      "Vacation days: " \o ToString(stats.vacation_days),
      "Sick days: " \o ToString(stats.sick_days),
      "">>

RECURSIVE MonthBlocks(_, _)
MonthBlocks(monthly_stats, months) ==
    IF months = <<>> THEN <<>>
    ELSE MonthBlock(Head(months), monthly_stats[Head(months)])
         \o MonthBlocks(monthly_stats, Tail(months))

\* the summary text of calculate_balance, as its lines
Summary(st, balance) ==
    <<"### Overall Summary",
      "Total hours worked: " \o Fixed2(st.total_worked) \o "h",
      "Expected hours: " \o Fixed2(st.total_expected) \o "h",
      "Balance: " \o Signed2(balance) \o "h",
      "",
      "Status: " \o (IF balance >= 0 THEN "On track" ELSE "Behind schedule"),
      "",
      "### Weekly Summary",
      "",
      "| Week | Dates | Hours Worked | Expected Hours | Balance | Cumulative Balance |",
      "|------|-------|--------------|----------------|---------|-------------------|">>
    \o WeekRows(st.weekly_stats, Reversed(Sorted(DOMAIN st.weekly_stats)), 0)
    \o <<"", "### Monthly Summary", "">>
    \o MonthBlocks(st.monthly_stats, Sorted(DOMAIN st.monthly_stats))

\* balance = total_worked - total_expected and the summary text
BalanceOf(st) ==
    IF st.err THEN [err |-> TRUE, balance |-> 0, summary |-> <<>>]
    ELSE [err |-> FALSE, balance |-> st.total_worked - st.total_expected,
          summary |-> Summary(st, st.total_worked - st.total_expected)]

\* calculate_balance: err when an exception leaves it
calculate_balance(entries, config) == BalanceOf(Stats(entries, config))

(***************************************************************************)
(* Document synthesizer                                                     *)
(***************************************************************************)
\* whether an entry of the list has the date
HasDate(entries, date) == \E i \in 1..Len(entries) : entries[i].date = date

RECURSIVE NotDated(_, _)
\* the entries whose date no entry of existing_entries has
NotDated(existing_entries, entries) ==
    IF entries = <<>> THEN <<>>
    ELSE (IF HasDate(existing_entries, Head(entries).date) THEN <<>> ELSE <<Head(entries)>>)
         \o NotDated(existing_entries, Tail(entries))

\* the merge loop had all_entries been a copy of existing_entries: the test
\* would not see the entries appended so far
MergeIntoCopy(existing_entries, entries) ==
    existing_entries \o NotDated(existing_entries, entries)

RECURSIVE MergeEntries(_, _)
\* the merge loop of generate_tracker_content.  all_entries is the list
\* existing_entries itself, so the test sees the entries appended so far.
MergeEntries(all_entries, entries) ==
    IF entries = <<>> THEN all_entries
    ELSE IF HasDate(all_entries, Head(entries).date)
    THEN MergeEntries(all_entries, Tail(entries))
    ELSE MergeEntries(Append(all_entries, Head(entries)), Tail(entries))

\* sorted with entry put after the k entries that go before it
InsertAfter(sorted, entry, k) ==
    SubSeq(sorted, 1, k) \o <<entry>> \o SubSeq(sorted, k + 1, Len(sorted))

\* entry put into sorted, after the entries whose date is not less than its
Insert(sorted, entry) ==
    InsertAfter(sorted, entry,
                Cardinality({i \in 1..Len(sorted) : ~StrLess(sorted[i].date, entry.date)}))

RECURSIVE SortEntries(_)
\* all_entries.sort(key=lambda x: x['date'], reverse=True): descending, and
\* stable
SortEntries(entries) ==
    IF entries = <<>> THEN <<>>
    ELSE Insert(SortEntries(SubSeq(entries, 1, Len(entries) - 1)), entries[Len(entries)])

\* ','.join(f"{b.start}-{b.end}" for b in blocks) or '-': the join is
\* empty when there is no block, and only then
BlocksStr(blocks) ==
    IF blocks = <<>> THEN "-"
    ELSE Join([i \in 1..Len(blocks) |-> blocks[i].start \o "-" \o blocks[i].end], ",")

EntryRow(entry) ==
    "| " \o entry.date \o " | " \o entry.type \o " | " \o BlocksStr(entry.work_times)
    \o " | " \o BlocksStr(entry.break_times) \o " | " \o entry.notes \o " |"

FormatHint == "<!-- Format: Work Times: 09:00-12:00,13:00-17:00 | Break Times: 12:00-13:00 -->"

\* content_lines of generate_tracker_content
Render(config, all_entries, summary) ==
    <<"---",
      "time_tracker: true",
      "---",
      "",
      "# Time Tracker",
      "",
      "## Configuration",
      "Expected Hours per Week: " \o NumberStr(config.expected_hours_per_week),
      "Workdays: " \o Join(config.workdays, ", "),
      "Vacation Days per Year: " \o ToString(config.vacation_days_per_year),
      "">>
    \o summary
    \o <<"",
         "## Time Entries",
         "| Date | Type | Work Times | Break Times | Notes |",
         "|------|------|------------|-------------|--------|">>
    \o [i \in 1..Len(all_entries) |-> EntryRow(all_entries[i])]
    \o <<FormatHint>>

\* whether content is false in Python: None or ""
Falsy(content) == content = <<>> \/ content = <<"">>

\* parse_entries(original_content) if original_content else []
ExistingEntries(original_content) ==
    IF Falsy(original_content) THEN NoEntries ELSE parse_entries(original_content)

\* all_entries of generate_tracker_content, merged and sorted
AllEntries(existing_entries, entries) == SortEntries(MergeEntries(existing_entries, entries))

\* generate_tracker_content from calculate_balance on; when calculate_balance
\* raised, the except clause returns original_content
Rendered(original_content, config, all_entries, balance) ==
    IF balance.err THEN original_content ELSE Render(config, all_entries, balance.summary)

\* generate_tracker_content from the merge on
Merged(original_content, config, all_entries) ==
    Rendered(original_content, config, all_entries, calculate_balance(all_entries, config))

\* generate_tracker_content after parse_entries; when that raised, the except
\* clause returns original_content
Generated(original_content, config, entries, existing) ==
    IF existing.err THEN original_content
    ELSE Merged(original_content, config, AllEntries(existing.val, entries))

\* generate_tracker_content
generate_tracker_content(original_content, config, entries) ==
    Generated(original_content, config, entries, ExistingEntries(original_content))

(***************************************************************************)
(* Update orchestrator                                                      *)
(*                                                                          *)
(* An event is the JSON text handed to process_event: json is what          *)
(* json.loads makes of it ("malformed" when it raises, "null", "list" for   *)
(* the empty list, "object" for a dict); for a dict, variant is the one     *)
(* key among Created, Updated, Synced it holds ("none": it holds none) and  *)
(* keys are the keys of that variant's dict.  A content of <<>> is null.    *)
(* A path is its normalised string.                                         *)
(***************************************************************************)
TRACKER_NAME == "_time_tracker.md"

\* Path.home() / ".local" / "share" / "note_cli" / "notes" / "_time_tracker.md"
FallbackPath == "/home/user/.local/share/note_cli/notes/" \o TRACKER_NAME

\* Path(p).parent
PathParent(p) == SubSeq(p, 1, SetMax(Seps(p, "/")) - 1)

\* event.get("Created") or event.get("Updated") or event.get("Synced"),
\* as a truth value: the variant's dict, when it is not empty
EventTypeTruthy(ev) == ev.json = "object" /\ ev.variant # "none" /\ ev.keys # {}

\* get_tracker_file
get_tracker_file(ev) ==
    IF EventTypeTruthy(ev) /\ "file_path" \in ev.keys
    THEN PathParent(ev.file_path) \o "/" \o TRACKER_NAME
    ELSE FallbackPath

\* the default template of process_event
default_content ==
    <<"---",
      "time_tracker: true",
      "---",
      "",
      "# Time Tracker",
      "",
      "## Configuration",
      "Expected Hours per Week: " \o NumberStr(DEFAULT_CONFIG.expected_hours_per_week),
      "Workdays: " \o Join(DEFAULT_CONFIG.workdays, ", "),
      "Vacation Days per Year: " \o ToString(DEFAULT_CONFIG.vacation_days_per_year),
      "",
      "## Summary",
      "### Overall Summary",
      "Total hours worked: 0.00h",
      "Expected hours: 0.00h",
      "Balance: +0.00h",
      "",
      "Status: On track",
      "",
      "### Monthly Summary",
      "",
      "## Time Entries",
      "| Date | Type | Work Times | Break Times | Notes |",
      "|------|------|------------|-------------|--------|",
      FormatHint>>

NoFile == <<>>

\* process_event returning None
NoResult == [some |-> FALSE, metadata |-> <<>>, content |-> <<>>]

\* process_event returning None and writing nothing
Nothing(files) == [result |-> NoResult, files |-> files]

\* the early return of process_event for an event that names another note
SkipsTitle(ev) ==
    EventTypeTruthy(ev) /\ "title" \in ev.keys /\ ev.title # "_time_tracker"

\* the content process_event takes from the event: that of the variant whose
\* file_path is the tracker file, None otherwise.  Without a file_path the
\* path is Path(""), which is "." and no tracker file.
EventContent(ev, tracker_file) ==
    IF /\ ev.variant # "none"
       /\ "file_path" \in ev.keys /\ ev.file_path = tracker_file
       /\ "content" \in ev.keys
    THEN ev.content
    ELSE <<>>

\* tracker_file.write_text(default_content) and the result that follows it.
\* io is what the file system does: "ok"; "denied", where mkdir or open
\* raises and the file is as before; "short", where the file is opened, and
\* so truncated, and the write raises.
CreateDefault(files, tracker_file, io, now) ==
    IF io = "denied" THEN Nothing(files)
    ELSE IF io = "short"
    THEN [result |-> NoResult, files |-> [files EXCEPT ![tracker_file] = <<"">>]]
    ELSE [result |-> [some |-> TRUE,
                      metadata |-> [k \in {"time_tracker", "hour_balance", "time_entries",
                                           "tracker_updated"} |->
                                       CASE k = "time_tracker" -> "true"
                                         [] k = "hour_balance" -> "+0.00"
                                         [] k = "time_entries" -> "0"
                                         [] OTHER -> now],
                      content |-> default_content],
          files |-> [files EXCEPT ![tracker_file] = default_content]]

\* should_update = updated_content != content, and the result
UpdateResult(content, now, entries, balance, updated_content) ==
    [some |-> TRUE,
     metadata |-> [k \in {"hour_balance", "time_entries", "tracker_updated"} |->
                      CASE k = "hour_balance" -> Signed2(balance)
                        [] k = "time_entries" -> ToString(Len(entries))
                        [] OTHER -> now],
     content |-> IF updated_content # content THEN updated_content ELSE content]

\* process_event after parse_entries and parse_config: the call of
\* generate_tracker_content, which raises nothing, and the result unless
\* calculate_balance raised
Updated(files, content, now, entries, config, balance) ==
    IF balance.err THEN Nothing(files)
    ELSE [result |-> UpdateResult(content, now, entries, balance.balance,
                                  generate_tracker_content(content, config, entries)),
          files |-> files]

Parsed(files, content, now, entries, config) ==
    IF entries.err \/ config.err THEN Nothing(files)
    ELSE Updated(files, content, now, entries.val, config.config,
                 calculate_balance(entries.val, config.config))

\* process_event from "Process existing content" on
UpdateExisting(files, content, now) ==
    Parsed(files, content, now, parse_entries(content), parse_config(content))

\* process_event from "if not content" on
WithContent(ev, files, io, now, tracker_file, content) ==
    IF Falsy(content) THEN CreateDefault(files, tracker_file, io, now)
    ELSE IF SkipsTitle(ev) THEN Nothing(files)
    ELSE UpdateExisting(files, content, now)

\* process_event from "if file_exists" on
WithTracker(ev, files, io, now, tracker_file) ==
    IF files[tracker_file] # NoFile /\ SkipsTitle(ev) THEN Nothing(files)
    ELSE WithContent(ev, files, io, now, tracker_file, EventContent(ev, tracker_file))

\* process_event: the result it returns and the files it leaves.  json.loads
\* raises on malformed text, and "Created" in None raises TypeError.
process_event(ev, files, io, now) ==
    IF ev.json \in {"malformed", "null"} THEN Nothing(files)
    ELSE WithTracker(ev, files, io, now, get_tracker_file(ev))

\* the full pipeline on a document: parse_entries(D), parse_config(D),
\* generate_tracker_content(D, config, entries)
Regenerated(content, entries, config) ==
    IF entries.err \/ config.err THEN [err |-> TRUE, out |-> <<>>]
    ELSE [err |-> FALSE, out |-> generate_tracker_content(content, config.config, entries.val)]

Pipeline(content) == Regenerated(content, parse_entries(content), parse_config(content))

(***************************************************************************)
(* The documents, events and entries the model is run on.                   *)
(***************************************************************************)
LedgerPath == "/notes/" \o TRACKER_NAME

OtherPath == "/notes/todo.md"

TrackerPaths == {LedgerPath, FallbackPath}

\* a ledger as a user writes it by hand: the configuration lines and the
\* table rows given, and no summary
HandWritten(config_lines, rows) ==
    <<"# Time Tracker", "", "## Configuration">> \o config_lines
    \o <<"", "## Time Entries",
         "| Date | Type | Work Times | Break Times | Notes |",
         "|------|------|------------|-------------|--------|">>
    \o rows \o <<FormatHint>>

ConfigLinesA == <<"Expected Hours per Week: 38.5", "Workdays: Monday, Tuesday",
                  "Vacation Days per Year: 25">>

RowMon == "| 2024-03-04 | workday | 09:00-17:00 | 12:00-13:00 | - |"

RowTue == "| 2024-03-05 | vacation | - | - | trip |"

DocEdited == HandWritten(ConfigLinesA, <<RowMon, RowTue>>)

\* a ledger the synthesizer rendered from a configuration it had parsed
DocRendered == generate_tracker_content(HandWritten(ConfigLinesA, <<RowMon>>),
                                        parse_config(DocEdited).config, <<>>)

\* a ledger with two rows of one date
DocDuplicate ==
    HandWritten(<<"expected hours per week: 40">>,
                <<RowMon, RowTue, "| 2024-03-04 | sick | - | - | flu |">>)

\* a recognised key with a value float() rejects, after one it accepts
DocBadHours ==
    HandWritten(<<"Vacation Days per Year: 25", "Expected Hours per Week: forty">>, <<RowMon>>)

\* a recognised key with a value int() rejects
DocBadVacation ==
    HandWritten(<<"Expected Hours per Week: 38.5", "Vacation Days per Year: 30.5">>, <<RowMon>>)

\* a row whose Work Times hold a segment with two '-'
DocBadRow ==
    HandWritten(ConfigLinesA, <<"| 2024-03-06 | workday | 09:00-12:00-13:00 | - | - |", RowMon>>)

\* a row whose date strptime rejects
DocBadDate ==
    HandWritten(ConfigLinesA, <<"| 2024-02-30 | workday | 09:00-10:00 | - | - |", RowMon>>)

\* the ledgers a file holds when the model starts
StoredDocs == {DocRendered, DocEdited}

\* the contents an event carries, besides the present content of the ledger
EventDocs == StoredDocs \cup {DocDuplicate, DocBadHours, DocBadVacation, DocBadRow, DocBadDate,
                              default_content}

Variants == {"Created", "Updated", "Synced"}

Titles == {"_time_tracker", "todo"}

\* datetime.now().strftime("%Y-%m-%d %H:%M:%S")
Clock == {"2024-03-06 18:00:00"}

IOOutcomes == {"ok", "denied", "short"}

NoEvent == [json |-> "none", variant |-> "none", keys |-> {}, file_path |-> "",
            title |-> "", content |-> <<>>]

\* the events whose JSON is not a dict with a variant
BareEvents == {[NoEvent EXCEPT !.json = j] : j \in {"malformed", "null", "list", "object"}}

\* the events that carry a variant, with any of its three fields missing
VariantEvents(contents) ==
    {[json |-> "object", variant |-> v, keys |-> ks,
      file_path |-> IF "file_path" \in ks THEN fp ELSE "",
      title |-> IF "title" \in ks THEN t ELSE "",
      content |-> IF "content" \in ks THEN c ELSE <<>>] :
        v \in Variants, ks \in SUBSET {"file_path", "title", "content"},
        fp \in {LedgerPath, OtherPath}, t \in Titles, c \in contents}

\* the events the host hands over when the ledger holds stored
Events(stored) ==
    BareEvents \cup VariantEvents({<<>>, <<"">>} \cup EventDocs \cup ({stored} \ {NoFile}))

\* the most entries a call of generate_tracker_content is handed
MaxNew == 3

NewSick == [date |-> "2024-03-04", type |-> "sick", work_times |-> <<>>,
            break_times |-> <<>>, notes |-> "new"]

NewThu == [date |-> "2024-03-07", type |-> "workday",
           work_times |-> <<TimeBlock("08:00", "12:00")>>, break_times |-> <<>>, notes |-> "-"]

NewThuAgain == [NewThu EXCEPT !.type = "vacation", !.work_times = <<>>]

\* the entries a caller hands to generate_tracker_content
NewEntries == {NewSick, NewThu, NewThuAgain}

EntryLists == UNION {[1..n -> NewEntries] : n \in 0..MaxNew}

\* the texts a caller hands to generate_tracker_content
Originals == {<<>>, <<"">>, DocRendered, DocEdited, DocDuplicate, DocBadRow, DocBadDate}

\* a configuration with a float, as parse_config returns it
Configs == {DEFAULT_CONFIG, parse_config(DocEdited).config}

\* a ledger without a Configuration section
DocNoSection ==
    <<"# Time Tracker", "", "## Time Entries",
      "| Date | Type | Work Times | Break Times | Notes |",
      "|------|------|------------|-------------|--------|",
      RowMon>>

\* a Configuration section with one recognised key in capitals, one key the
\* code does not know and a line without ':'; rows with too few fields,
\* without a date and with a segment without '-'
DocPartial ==
    HandWritten(<<"VACATION Days per YEAR : 12", "Lunch Break: 45", "no colon here">>,
                <<"| 2024-03-06 | workday |", "|  | workday | 09:00-10:00 | - | - |",
                  "| 2024-03-07 | workday | 0900,10:00-11:30 | - | - |", RowMon>>)

\* a ledger with a '|' line before the Time Entries marker and a second
\* table under a later heading
DocTwoTables ==
    <<"| 2024-03-01 | workday | 09:00-10:00 | - | early |">>
    \o HandWritten(ConfigLinesA, <<RowMon>>)
    \o <<"", "## Notes", "| Topic | Who | When | Where | Why |", "|--|--|--|--|--|",
         "| 2024-03-09 | workday | 09:00-10:00 | - | later |">>

\* the ledger of the worked example: 40 hours per week and one workday
DocScenario == HandWritten(<<"Expected Hours per Week: 40">>, <<RowMon>>)

\* the times a TimeBlock is made of
TimeStrs == {"09:00", "12:00", "17:00", "00:00", "23:59", "9:05", " 08:30 ", "24:00", "12:60",
             "noon", ""}

\* a ledger whose rows are the entries calculate_balance is called with: two
\* years, every type, hours that are negative, a date strptime rejects, a
\* week that holds the turn of the year
DocLedger ==
    HandWritten(ConfigLinesA,
                <<RowMon, RowTue,
                  "| 2024-03-12 | sick | - | - | flu |",
                  "| 2024-04-02 | workday | 09:00-08:00 | - | backwards |",
                  "| 2024-12-30 | Workday | 08:00-12:30,13:00-16:15 | 10:00-10:15 | caps |",
                  "| 2025-01-01 | holiday | 09:00-10:00 | - | other |",
                  "| 2024-02-30 | workday | 09:00-10:00 | - | no such day |">>)

\* the entries calculate_balance is called with
BalEntries == {parse_entries(DocLedger).val[i] : i \in DOMAIN parse_entries(DocLedger).val}

\* the most entries a call of calculate_balance is handed
MaxEntries == 3

VARIABLES
    files,    \* the content of each tracker file, NoFile when there is none
    phase,    \* "idle", "pending" (an event was handed over), "done"
    event,    \* the event handed to process_event
    env,      \* what the file system and the clock do during the call
    before,   \* files when the event was handed over
    result,   \* what process_event returned
    gen,      \* a call of generate_tracker_content and what came of it
    call      \* a call of one of the other functions and what it returned

vars == <<files, phase, event, env, before, result, gen, call>>


NoGen == [stage |-> "none", original |-> <<>>, config |-> DEFAULT_CONFIG, entries |-> <<>>,
          existing |-> NoEntries, all_entries |-> <<>>, out |-> <<>>,
          again |-> [err |-> FALSE, out |-> <<>>]]

Init ==
    /\ files \in [TrackerPaths -> {NoFile} \cup StoredDocs]
    /\ phase = "idle"
    /\ event = NoEvent
    /\ env = [io |-> "ok", now |-> ""]
    /\ before = files
    /\ result = NoResult
    /\ gen = NoGen
    /\ call = [op |-> "none"]

\* the host hands an event to process_event
Receive(ev, io, now) ==
    /\ phase = "idle"
    /\ phase' = "pending"
    /\ event' = ev
    /\ env' = [io |-> io, now |-> now]
    /\ before' = files
    /\ UNCHANGED <<files, result, gen, call>>

\* what process_event leaves
Processed(r) ==
    /\ files' = r.files
    /\ result' = r.result

\* process_event runs
Process ==
    /\ phase = "pending"
    /\ Processed(process_event(event, files, env.io, env.now))
    /\ phase' = "done"
    /\ UNCHANGED <<event, env, before, gen, call>>

\* the host takes the result
Return ==
    /\ phase = "done"
    /\ phase' = "idle"
    /\ event' = NoEvent
    /\ env' = [io |-> "ok", now |-> ""]
    /\ before' = files
    /\ result' = NoResult
    /\ UNCHANGED <<files, gen, call>>

Next ==
    \/ \E ev \in Events(files[LedgerPath]), io \in IOOutcomes, now \in Clock :
          Receive(ev, io, now)
    \/ Process
    \/ Return

Spec == Init /\ [][Next]_vars

\* what a call of generate_tracker_content works on and returns
Call(original_content, config, entries, existing) ==
    [stage |-> "generated", original |-> original_content, config |-> config,
     entries |-> entries, existing |-> existing,
     all_entries |-> IF existing.err THEN <<>> ELSE AllEntries(existing.val, entries),
     out |-> Generated(original_content, config, entries, existing),
     again |-> [err |-> FALSE, out |-> <<>>]]

InitGen ==
    /\ files = [p \in TrackerPaths |-> NoFile]
    /\ phase = "idle"
    /\ event = NoEvent
    /\ env = [io |-> "ok", now |-> ""]
    /\ before = files
    /\ result = NoResult
    /\ gen = NoGen
    /\ call = [op |-> "none"]

\* a caller calls generate_tracker_content
Generate(original_content, config, entries) ==
    /\ gen.stage = "none"
    /\ gen' = Call(original_content, config, entries, ExistingEntries(original_content))
    /\ UNCHANGED <<files, phase, event, env, before, result, call>>

\* the full pipeline runs on the document the call returned
Rerun ==
    /\ gen.stage = "generated"
    /\ gen' = [gen EXCEPT !.stage = "rerun", !.again = Pipeline(gen.out)]
    /\ UNCHANGED <<files, phase, event, env, before, result, call>>

NextGen ==
    \/ \E original_content \in Originals, config \in Configs, entries \in EntryLists :
          Generate(original_content, config, entries)
    \/ Rerun

SpecGen == InitGen /\ [][NextGen]_vars

\* a caller makes a TimeBlock and calls duration_minutes
CallDuration(block) ==
    /\ call.op = "none"
    /\ call' = [op |-> "duration_minutes", block |-> block, ret |-> duration_minutes(block)]
    /\ UNCHANGED <<files, phase, event, env, before, result, gen>>

\* a caller calls calculate_balance; stats are the totals and the buckets
\* the loop leaves
CallBalance(entries, config) ==
    /\ call.op = "none"
    /\ call' = [op |-> "calculate_balance", entries |-> entries, config |-> config,
                stats |-> Stats(entries, config), ret |-> calculate_balance(entries, config)]
    /\ UNCHANGED <<files, phase, event, env, before, result, gen>>

\* a caller calls parse_entries and parse_config on a document
CallParse(content) ==
    /\ call.op = "none"
    /\ call' = [op |-> "parse", content |-> content,
                entries |-> parse_entries(content), config |-> parse_config(content)]
    /\ UNCHANGED <<files, phase, event, env, before, result, gen>>

NextCalls ==
    \/ \E start \in TimeStrs, end \in TimeStrs : CallDuration(TimeBlock(start, end))
    \/ \E entries \in UNION {[1..n -> BalEntries] : n \in 0..MaxEntries}, config \in Configs :
          CallBalance(entries, config)
    \/ \E content \in EventDocs \cup {<<"">>, DocNoSection, DocPartial, DocTwoTables, DocLedger,
                                   DocScenario} :
          CallParse(content)

SpecCalls == InitGen /\ [][NextCalls]_vars

\* the most events the host hands over in a row, each with the content the
\* result before it returned
MaxEvents == 3

\* the event the host makes for the ledger document with the content given
FeedEvent(variant, content) ==
    [json |-> "object", variant |-> variant, keys |-> {"file_path", "title", "content"},
     file_path |-> LedgerPath, title |-> "_time_tracker", content |-> content]

\* process_event handles the event, r is what it leaves, and the host adds
\* the result to those it has kept
Fed(ev, now, results, r) ==
    /\ Len(results) < MaxEvents
    /\ Processed(r)
    /\ phase' = "done"
    /\ event' = ev
    /\ env' = [io |-> "ok", now |-> now]
    /\ before' = files
    /\ call' = [op |-> "feed", results |-> Append(results, r.result)]
    /\ UNCHANGED gen

\* the first event of a sequence: the host hands over a ledger document
FeedFirst(variant, content, now) ==
    /\ call.op = "none"
    /\ Fed(FeedEvent(variant, content), now, <<>>,
           process_event(FeedEvent(variant, content), files, "ok", now))

\* a later event: the host hands over the content of the result before
FeedNext(variant, now) ==
    /\ call.op = "feed"
    /\ result.some
    /\ Fed(FeedEvent(variant, result.content), now, call.results,
           process_event(FeedEvent(variant, result.content), files, "ok", now))

NextFeed ==
    \/ \E variant \in Variants, now \in Clock,
            content \in EventDocs \cup {DocNoSection, DocPartial, DocTwoTables, DocLedger,
                                         DocScenario} :
          FeedFirst(variant, content, now)
    \/ \E variant \in Variants, now \in Clock : FeedNext(variant, now)

SpecFeed == Init /\ [][NextFeed]_vars

(***************************************************************************)
(* Properties of generate_tracker_content, under SpecGen.                   *)
(***************************************************************************)
Range(seq) == {seq[i] : i \in 1..Len(seq)}

\* how often the entry occurs in the list
Occ(seq, e) == Cardinality({i \in 1..Len(seq) : seq[i] = e})

\* the call got as far as rendering a document
GenRendered ==
    /\ gen.stage # "none"
    /\ ~gen.existing.err
    /\ ~calculate_balance(gen.all_entries, gen.config).err

\* the call got as far as merging the entries
GenMerged == gen.stage # "none" /\ ~gen.existing.err

\* C1: once generate_tracker_content has rendered a document D, the full
\* pipeline run on D returns D again.
C1_RegenerationIsIdempotent ==
    gen.stage = "rerun" /\ GenRendered => ~gen.again.err /\ gen.again.out = gen.out

\* C6: the merged entries of generate_tracker_content never hold two entries
\* with one date.
C6_DatesAreUnique ==
    GenMerged =>
        \A i, j \in 1..Len(gen.all_entries) :
            i # j => gen.all_entries[i].date # gen.all_entries[j].date

\* the k-th new entry has a date no existing entry has
NewDate(k) == ~HasDate(gen.existing.val, gen.entries[k].date)

\* the k-th new entry is the first of the new entries with its date
FirstOfDate(k) == \A j \in 1..(k - 1) : gen.entries[j].date # gen.entries[k].date

\* the merged entries are the existing entries, each as it was parsed, and
\* the new entries whose index is in added
MergedIs(added) ==
    \A e \in Range(gen.all_entries) \cup Range(gen.existing.val) \cup Range(gen.entries) :
        Occ(gen.all_entries, e) =
            Occ(gen.existing.val, e) + Cardinality({k \in added : gen.entries[k] = e})

\* C7 as stated: the merged entries are the existing entries, unchanged, and
\* every new entry whose date no existing entry has.
C7_AddsEveryNewDate ==
    GenMerged => MergedIs({k \in 1..Len(gen.entries) : NewDate(k)})

\* C7: the merged entries are the existing entries, unchanged, and every new
\* entry whose date neither an existing entry nor an earlier new entry has;
\* a new entry with the date of an existing one changes nothing.
C7_AddsFirstOfEachNewDate ==
    GenMerged => MergedIs({k \in 1..Len(gen.entries) : NewDate(k) /\ FirstOfDate(k)})

\* C7: a call with existing entries that is handed an entry with the date of
\* an existing one, an entry with a new date and a second entry with that date
C7_MergedAllKinds ==
    /\ GenMerged
    /\ gen.existing.val # <<>>
    /\ \E k \in 1..Len(gen.entries) : ~NewDate(k)
    /\ \E k \in 1..Len(gen.entries) : NewDate(k) /\ FirstOfDate(k)
    /\ \E k \in 1..Len(gen.entries) : NewDate(k) /\ ~FirstOfDate(k)

(***************************************************************************)
(* Properties of process_event, under Spec.                                 *)
(***************************************************************************)
\* the ledger path of the event process_event has handled
Ledger == get_tracker_file(event)

\* process_event has returned and the file system did not fail
DoneOk == phase = "done" /\ env.io = "ok"

\* the event names a document
NamesDocument == event.json = "object" /\ event.variant # "none" /\ "file_path" \in event.keys

\* the event carries no extractable content: missing, null or empty
NoContent == "content" \notin event.keys \/ Falsy(event.content)

\* the event concerns the ledger and supplies its non-empty content
OwnContent ==
    /\ NamesDocument
    /\ event.file_path = Ledger
    /\ "title" \in event.keys /\ event.title = "_time_tracker"
    /\ ~NoContent

NoOp == result = NoResult /\ files = before

\* C2: when the ledger file exists and the event's file_path is not the
\* ledger's path, process_event returns no result and writes no file,
\* whatever title and content the event carries.
C2_OtherDocumentIsNoOp ==
    DoneOk /\ NamesDocument /\ before[Ledger] # NoFile /\ event.file_path # Ledger => NoOp

\* C3: when the ledger file exists and the event concerns the ledger but
\* carries no extractable content, process_event returns no result and the
\* ledger file is left unchanged.
C3_NoContentIsNoOp ==
    DoneOk /\ NamesDocument /\ before[Ledger] # NoFile /\ event.file_path = Ledger /\ NoContent
        => NoOp

\* C4: when no ledger file exists, an event for any document makes
\* process_event write the default template to the ledger path and return
\* the default metadata.
C4_FirstEventCreatesLedger ==
    DoneOk /\ NamesDocument /\ before[Ledger] = NoFile =>
        /\ files[Ledger] = default_content
        /\ result.some
        /\ result.metadata["hour_balance"] = "+0.00"
        /\ result.metadata["time_entries"] = "0"

\* C5: when the ledger file exists and the event supplies the ledger's own
\* non-empty content, process_event returns a result with the entry count,
\* the signed balance and the timestamp, and with the re-rendered content
\* when it differs from the input and the input when it does not.
C5_UpdateReportsRendering ==
    phase = "done" /\ OwnContent /\ before[Ledger] # NoFile =>
        /\ result.some
        /\ result.metadata["time_entries"] = ToString(Len(parse_entries(event.content).val))
        /\ result.metadata["hour_balance"] =
               Signed2(calculate_balance(parse_entries(event.content).val,
                                         parse_config(event.content).config).balance)
        /\ result.metadata["tracker_updated"] = env.now
        /\ result.content = Pipeline(event.content).out

\* C8: when process_event fails, or is handed JSON that is not an object, a
\* ledger file that was there before the event is left as it was.
C8_FailureChangesNothing ==
    phase = "done" /\ (result = NoResult \/ event.json # "object") =>
        \A p \in TrackerPaths : before[p] # NoFile => files[p] = before[p]

\* C9: an event without a variant, or with a variant without file_path or
\* without title, yields no result and writes no file.
C9_MissingFieldsIsNoOp ==
    DoneOk /\ event.json = "object"
           /\ (event.variant = "none" \/ "file_path" \notin event.keys
               \/ "title" \notin event.keys)
        => NoOp

\* C10: when the Configuration section of the ledger content holds a
\* recognised key with a value that is not a number, parse_config still
\* returns a configuration and the event is processed to a result.
C10_BadConfigLineIsIsolated ==
    phase = "done" /\ OwnContent /\ event.content \in {DocBadHours, DocBadVacation} =>
        ~parse_config(event.content).err /\ result.some

\* C11: no document makes parse_entries fail: a row with too few fields,
\* without a date or with a time segment that has no '-' or more than one
\* is dropped, and the parse returns.
C11_MalformedRowNeverFailsParse ==
    call.op = "parse" => ~call.entries.err

\* the calls of calculate_balance
Balanced == call.op = "calculate_balance"

\* the YYYY-MM months of the entries of the call whose date parses
MonthsSeen ==
    {MonthKey(ParseDate(call.entries[i].date)) :
        i \in {j \in DOMAIN call.entries : ~ParseDate(call.entries[j].date).err}}

\* C12: calculate_balance returns, and total_expected is expected hours
\* per week times 4 times the number of distinct months among the entries
\* whose date parses, whatever the number and the types of the entries.
C12_ExpectedIsFourPerMonthSeen ==
    Balanced =>
        /\ ~call.ret.err
        /\ call.stats.total_expected =
               call.config.expected_hours_per_week.h * 4 * Cardinality(MonthsSeen)

\* the parse of the ledger of the worked example
ScenarioParsed == call.op = "parse" /\ call.content = DocScenario

\* C13: for the ledger with 40 expected hours per week and the single
\* workday 2024-03-04, 09:00-17:00 with a break 12:00-13:00, the day's hours
\* are 7.0, the balance of the entry's week is 7.0 - 40 = -33.0 and the
\* summary says behind schedule.
C13_ScenarioIsBehindSchedule ==
    ScenarioParsed =>
        /\ ~call.entries.err /\ ~call.config.err
        /\ Len(call.entries.val) = 1
        /\ call.config.config.expected_hours_per_week.h = 4000
        /\ calculate_day_hours(call.entries.val[1].work_times,
                               call.entries.val[1].break_times) = 700
        /\ DOMAIN Stats(call.entries.val, call.config.config).weekly_stats = {"2024-W10"}
        /\ Stats(call.entries.val, call.config.config).weekly_stats["2024-W10"].worked
             - Stats(call.entries.val, call.config.config).weekly_stats["2024-W10"].expected
               = -3300
        /\ "| 2024-W10 | 2024-03-04 to 2024-03-10 | 7.00h | 40.00h | -33.00h | -33.00h |"
               \in Range(calculate_balance(call.entries.val, call.config.config).summary)
        /\ calculate_balance(call.entries.val, call.config.config).balance < 0
        /\ "Status: Behind schedule"
               \in Range(calculate_balance(call.entries.val, call.config.config).summary)

C13_ScenarioWasParsed ==
    ScenarioParsed /\ ~calculate_balance(call.entries.val, call.config.config).err

\* two digits, ':', two digits, of an hour of the day and a minute of the hour
IsHHMM(s) ==
    /\ Len(s) = 5 /\ SubSeq(s, 3, 3) = ":"
    /\ IsDigits(SubSeq(s, 1, 2)) /\ IsDigits(SubSeq(s, 4, 5))
    /\ NatVal(SubSeq(s, 1, 2)) < 24 /\ NatVal(SubSeq(s, 4, 5)) < 60

\* the minute of the day an HH:MM names
MinuteOfDay(s) == 60 * NatVal(SubSeq(s, 1, 2)) + NatVal(SubSeq(s, 4, 5))

Measured == call.op = "duration_minutes"

\* C14: duration_minutes of a block whose start and end are HH:MM is the
\* minute of the end less the minute of the start, negative when the end is
\* earlier, 180 for 09:00-12:00; when a boundary does not parse it is 0, and
\* the block changes a day's hours neither as work nor as break.
C14_DurationIsMinuteDifference ==
    Measured =>
        /\ IsHHMM(call.block.start) /\ IsHHMM(call.block.end) =>
               call.ret = MinuteOfDay(call.block.end) - MinuteOfDay(call.block.start)
        /\ call.block = TimeBlock("09:00", "12:00") => call.ret = 180
        /\ ~parse_time(call.block.start).ok \/ ~parse_time(call.block.end).ok =>
               /\ call.ret = 0
               /\ calculate_day_hours(<<TimeBlock("09:00", "12:00"), call.block>>, <<>>) = 300
               /\ calculate_day_hours(<<TimeBlock("09:00", "12:00")>>, <<call.block>>) = 300

\* a block that ends before it starts was measured
C14_EndBeforeStartMeasured ==
    Measured /\ IsHHMM(call.block.start) /\ IsHHMM(call.block.end) /\ call.ret < 0

\* parse_config returned a configuration
ConfigRead == call.op = "parse" /\ ~call.config.err

\* the keys of the Key: Value lines of the Configuration section of the
\* document, in lower case with '_' for ' '
SectionKeys ==
    {ReplaceSpaces(Lower(Strip(SplitOnce(call.content[i], ":")[1]))) :
        i \in {j \in ConfigSection(call.content).first..ConfigSection(call.content).last :
                  Contains(call.content[j], ":")}}

DateParses(entry) == ~ParseDate(entry.date).err

\* C16: an entry whose date does not parse is skipped: calculate_balance
\* returns, and its totals and buckets are those of the list without the
\* entry.
C16_BadEntryIsSkipped ==
    Balanced =>
        /\ ~call.ret.err
        /\ call.stats = Stats(SelectSeq(call.entries, DateParses), call.config)
        /\ call.ret = calculate_balance(SelectSeq(call.entries, DateParses), call.config)

RECURSIVE SumField(_, _, _)
\* the sum of a field over the buckets of the keys
SumField(buckets, keys, field) ==
    IF keys = {} THEN 0
    ELSE buckets[CHOOSE k \in keys : TRUE][field]
         + SumField(buckets, keys \ {CHOOSE k \in keys : TRUE}, field)

\* the hours of the work blocks less those of the break blocks, in hundredths
HoursOf(entry) == calculate_day_hours(entry.work_times, entry.break_times)

\* the hours a workday adds: its hours when they are positive
Credit(entry) ==
    IF Lower(entry.type) = "workday" /\ HoursOf(entry) > 0 THEN HoursOf(entry) ELSE 0

RECURSIVE SumCredit(_)
SumCredit(entries) ==
    IF entries = <<>> THEN 0 ELSE Credit(Head(entries)) + SumCredit(Tail(entries))

\* the number of entries of the type
CountOf(entries, entry_type) ==
    Cardinality({i \in DOMAIN entries : Lower(entries[i].type) = entry_type})

Summarised == Balanced /\ ~call.ret.err

IsWeekRow(line) == StartsWith(line, "| ") /\ ~StartsWith(line, "| Week")

IsMonthHead(line) == StartsWith(line, "#### ")

\* the rows of the weekly table of the summary, in the order they appear
WeekTable == SelectSeq(call.ret.summary, IsWeekRow)

\* the month headings of the summary, in the order they appear
MonthHeads == SelectSeq(call.ret.summary, IsMonthHead)

\* the k-th field of a row of a table
Field(line, k) == StripAll(Split(line, "|"))[k + 1]

RECURSIVE BalanceOfRows(_)
\* the sum of worked - expected over the weeks of the first k rows
BalanceOfRows(k) ==
    IF k = 0 THEN 0
    ELSE BalanceOfRows(k - 1)
         + call.stats.weekly_stats[Field(WeekTable[k], 1)].worked
         - call.stats.weekly_stats[Field(WeekTable[k], 1)].expected

\* C18: the weekly table has one row per week, the latest week first; the
\* cumulative balance of the k-th row is the sum of worked - expected over
\* the first k rows; the monthly section has one heading per month, the
\* earliest month first.
C18_WeeksDescendCumulatively ==
    Summarised =>
        /\ Len(WeekTable) = Cardinality(DOMAIN call.stats.weekly_stats)
        /\ \A k \in DOMAIN WeekTable : Field(WeekTable[k], 1) \in DOMAIN call.stats.weekly_stats
        /\ \A k \in 1..(Len(WeekTable) - 1) :
               StrLess(Field(WeekTable[k + 1], 1), Field(WeekTable[k], 1))
        /\ \A k \in DOMAIN WeekTable :
               Field(WeekTable[k], 6) = Signed2(BalanceOfRows(k)) \o "h"
        /\ Len(MonthHeads) = Cardinality(DOMAIN call.stats.monthly_stats)
        /\ \A k \in DOMAIN MonthHeads :
               SubSeq(MonthHeads[k], 6, Len(MonthHeads[k])) \in DOMAIN call.stats.monthly_stats
        /\ \A k \in 1..(Len(MonthHeads) - 1) : StrLess(MonthHeads[k], MonthHeads[k + 1])

\* a summary of three weeks in two months, the entries given earliest first
C18_ThreeWeeksTwoMonths ==
    /\ Summarised
    /\ Len(WeekTable) = 3 /\ Len(MonthHeads) = 2
    /\ StrLess(call.entries[1].date, call.entries[2].date)
    /\ StrLess(call.entries[2].date, call.entries[3].date)

\* line i belongs to the table of the Time Entries section: a marker line
\* precedes it, no heading lies between the marker and the first '|' line
\* after it, and from that line to line i every line begins with '|'
InEntriesTable(content, i) ==
    \E m \in 1..(i - 1) :
        /\ StartsWith(content[m], "## Time Entries")
        /\ \E s \in (m + 1)..i :
               /\ \A j \in (m + 1)..(s - 1) :
                      ~StartsWith(content[j], "|") /\ ~StartsWith(content[j], "#")
               /\ \A j \in s..i : StartsWith(content[j], "|")

\* C19: every entry parse_entries returns is a row of the table of the Time
\* Entries section: no '|' line after the section has ended and no line
\* before the marker is returned as an entry.
C19_EntriesComeFromTheSection ==
    call.op = "parse" /\ ~call.entries.err =>
        \A k \in DOMAIN call.entries.val :
            \E i \in DOMAIN call.content :
                /\ InEntriesTable(call.content, i)
                /\ Field(call.content[i], 1) = call.entries.val[k].date

\* C20: a result process_event returns for an event whose file_path is not
\* the ledger's path carries no content, whether the ledger file exists or
\* not.
C20_NoContentForOtherDocument ==
    phase = "done" /\ NamesDocument /\ event.file_path # Ledger /\ result.some =>
        result.content = <<>>

\* C21: the start_date of a week's bucket is a Monday, it is the Monday of
\* the week of every entry counted in the bucket, and no two week keys have
\* one start_date, also where a week holds the turn of a year.
C21_WeekKeysHaveDistinctMondays ==
    Balanced =>
        /\ \A w \in DOMAIN call.stats.weekly_stats :
               Weekday(call.stats.weekly_stats[w].start_date) = 0
        /\ ~call.stats.err =>
               \A i \in DOMAIN call.entries :
                   call.stats.weekly_stats[WeekKey(ParseDate(call.entries[i].date))].start_date
                       = AddDays(ParseDate(call.entries[i].date),
                                 -Weekday(ParseDate(call.entries[i].date)))
        /\ \A w1, w2 \in DOMAIN call.stats.weekly_stats :
               w1 # w2 => call.stats.weekly_stats[w1].start_date
                              # call.stats.weekly_stats[w2].start_date

(***************************************************************************)
(* Properties of a sequence of events, under SpecFeed.                      *)
(***************************************************************************)
\* the update path accepted the document the sequence started from
FeedAccepted == call.op = "feed" /\ call.results[1].some

\* C22: when the update path accepts a ledger document and every event
\* carries the content of the result before it, every event yields a result,
\* the content of the third result and of those after it is that of the
\* second, and time_entries and hour_balance are the same in every result.
C22_FeedConvergesInTwoEvents ==
    FeedAccepted =>
        /\ \A k \in DOMAIN call.results : call.results[k].some
        /\ \A k \in 2..(Len(call.results) - 1) :
               call.results[k + 1].content = call.results[k].content
        /\ \A k \in DOMAIN call.results :
               /\ call.results[k].metadata["time_entries"]
                      = call.results[1].metadata["time_entries"]
               /\ call.results[k].metadata["hour_balance"]
                      = call.results[1].metadata["hour_balance"]

\* three events were fed, the first from a ledger with entries; the first
\* two results changed the content and the third did not
C22_ThirdResultRepeatsSecond ==
    /\ FeedAccepted
    /\ Len(call.results) = 3
    /\ call.results[1].metadata["time_entries"] # "0"
    /\ call.results[1].content # call.results[2].content
    /\ call.results[3].content = call.results[2].content
====
